---- MODULE Spec2Model ----
(***************************************************************************)
(* Model of AdvancedReconciliationEngine                                   *)
(* (receipt-reconciliation-system/services/reconciliation.py).             *)
(*                                                                         *)
(* Strings are sequences of one-character strings.  Scores that the code   *)
(* keeps as floats in [0,1] are kept as integers in thousandths (Unit);    *)
(* the weighted final score is kept in ten-thousandths (weights are the    *)
(* tenths 2, 4, 4), so the 0.7 threshold is 7000.                          *)
(***************************************************************************)
EXTENDS Integers, Sequences, FiniteSets, TLC

----------------------------------------------------------------------------
(* Bounds of the model *)

MaxReceipts == 2        \* longest receipt list
MaxBank == 2            \* longest bank list
MaxEarlierCalls == 2    \* calls counted before the count saturates
MaxStrLen == 3          \* longest string given to token_set_ratio on its own
MaxTieBank == 3         \* longest bank list of the calls with tied candidates
MaxAmount == 25         \* largest magnitude given to _amounts_compatible on its own
MaxDay == 8             \* dates are the days 0..MaxDay
MaxEmails == 3          \* longest list of emails a fetch gives
MaxRuns == 2            \* runs of the email pipeline on one store

----------------------------------------------------------------------------
(* Characters and strings *)

LowerLetters == <<"a","b","c","d","e","f","g","h","i","j","k","l","m",
                  "n","o","p","q","r","s","t","u","v","w","x","y","z">>
UpperLetters == <<"A","B","C","D","E","F","G","H","I","J","K","L","M",
                  "N","O","P","Q","R","S","T","U","V","W","X","Y","Z">>
Digits == <<"0","1","2","3","4","5","6","7","8","9">>

Abs(x) == IF x < 0 THEN -x ELSE x
Max(x, y) == IF x >= y THEN x ELSE y

IndexIn(c, t) == IF \E k \in 1..Len(t) : t[k] = c
                 THEN CHOOSE k \in 1..Len(t) : t[k] = c
                 ELSE 0

\* str.upper(), per character
UpperChar(c) == IF IndexIn(c, LowerLetters) > 0
                THEN UpperLetters[IndexIn(c, LowerLetters)] ELSE c
upper(s) == [k \in 1..Len(s) |-> UpperChar(s[k])]

\* str.lower(), per character
LowerChar(c) == IF IndexIn(c, UpperLetters) > 0
                THEN LowerLetters[IndexIn(c, UpperLetters)] ELSE c
lower(s) == [k \in 1..Len(s) |-> LowerChar(s[k])]

\* Python's  s in t  on strings: s occurs as a contiguous substring of t
\* (the empty string occurs in every string)
Contains(t, s) == \E k \in 0..(Len(t) - Len(s)) : SubSeq(t, k + 1, k + Len(s)) = s

\* str.split(): the maximal runs of non-blank characters, in order
RECURSIVE SplitFrom(_, _, _)
SplitFrom(s, k, cur) ==
    IF k > Len(s)
    THEN IF cur = <<>> THEN <<>> ELSE <<cur>>
    ELSE IF s[k] = " "
         THEN IF cur = <<>> THEN SplitFrom(s, k + 1, <<>>)
              ELSE <<cur>> \o SplitFrom(s, k + 1, <<>>)
         ELSE SplitFrom(s, k + 1, Append(cur, s[k]))
split(s) == SplitFrom(s, 1, <<>>)

\* str.strip()
RECURSIVE LStrip(_)
LStrip(s) == IF s # <<>> /\ Head(s) = " " THEN LStrip(Tail(s)) ELSE s
RECURSIVE RStrip(_)
RStrip(s) == IF s # <<>> /\ s[Len(s)] = " " THEN RStrip(SubSeq(s, 1, Len(s) - 1)) ELSE s
strip(s) == RStrip(LStrip(s))

\* " ".join(tokens)
RECURSIVE join(_)
join(toks) == IF toks = <<>> THEN <<>>
              ELSE IF Len(toks) = 1 THEN toks[1]
              ELSE toks[1] \o <<" ">> \o join(Tail(toks))

\* Code-point order of the characters that survive full_process
CharOrd(c) == IF c = " " THEN 0
              ELSE IF IndexIn(c, Digits) > 0 THEN IndexIn(c, Digits)
              ELSE IF IndexIn(c, LowerLetters) > 0 THEN 20 + IndexIn(c, LowerLetters)
              ELSE 99

\* s < t in Python's string order
RECURSIVE StrLess(_, _)
StrLess(s, t) ==
    IF t = <<>> THEN FALSE
    ELSE IF s = <<>> THEN TRUE
    ELSE IF CharOrd(Head(s)) < CharOrd(Head(t)) THEN TRUE
    ELSE IF CharOrd(Head(s)) > CharOrd(Head(t)) THEN FALSE
    ELSE StrLess(Tail(s), Tail(t))

\* sorted(S) for a set of strings
RECURSIVE sorted(_)
sorted(S) == IF S = {} THEN <<>>
             ELSE LET m == CHOOSE x \in S : \A y \in S \ {x} : StrLess(x, y)
                  IN <<m>> \o sorted(S \ {m})

SeqToSet(q) == {q[k] : k \in 1..Len(q)}

----------------------------------------------------------------------------
(* fuzz.token_set_ratio, as called at reconciliation.py:108 *)

\* length of a longest common subsequence, row by row
RECURSIVE LcsRow(_, _, _, _, _)
LcsRow(prev, ch, t, j, row) ==
    \* prev, row: sequences indexed 1..Len(t)+1 holding columns 0..Len(t)
    IF j > Len(t) THEN row
    ELSE LET v == IF ch = t[j] THEN prev[j] + 1
                  ELSE Max(prev[j + 1], row[j])
         IN LcsRow(prev, ch, t, j + 1, Append(row, v))
RECURSIVE LcsFrom(_, _, _, _)
LcsFrom(s, t, k, prev) ==
    \* a row that already matches all of t cannot be improved on
    IF prev[Len(t) + 1] = Len(t) \/ k > Len(s) THEN prev[Len(t) + 1]
    ELSE LcsFrom(s, t, k + 1, LcsRow(prev, s[k], t, 1, <<0>>))
Lcs(s, t) == LcsFrom(s, t, 1, [j \in 1..(Len(t) + 1) |-> 0])

\* utils.intr: int(round(x / y)) for x, y >= 0, y > 0; round() takes a tie
\* to the even neighbour
RoundDiv(x, y) ==
    LET q == x \div y
        r == x % y
    IN IF 2 * r < y THEN q
       ELSE IF 2 * r > y THEN q + 1
       ELSE IF q % 2 = 0 THEN q ELSE q + 1

\* fuzz.ratio with python-Levenshtein installed: 0 for an empty argument,
\* else round(100 * 2*M / T), M the length of a longest common subsequence,
\* T the total length
ratio(s, t) == IF s = <<>> \/ t = <<>> THEN 0
               ELSE RoundDiv(100 * 2 * Lcs(s, t), Len(s) + Len(t))

\* difflib.SequenceMatcher, which fuzzywuzzy falls back to when
\* python-Levenshtein is not installed.  Positions are 1-based and the
\* ranges alo..ahi, blo..bhi inclusive.
RECURSIVE RunLen(_, _, _, _, _, _)
RunLen(s, t, i, j, ahi, bhi) ==
    IF i <= ahi /\ j <= bhi /\ s[i] = t[j]
    THEN 1 + RunLen(s, t, i + 1, j + 1, ahi, bhi) ELSE 0

\* find_longest_match: a longest common block; of those the one that starts
\* earliest in s, and of those the one that starts earliest in t
find_longest_match(s, t, alo, ahi, blo, bhi) ==
    LET runs == {RunLen(s, t, i, j, ahi, bhi) : i \in alo..ahi, j \in blo..bhi}
        k == CHOOSE n \in runs : \A m \in runs : m <= n
        besti == CHOOSE i \in alo..ahi :
                     /\ \E j \in blo..bhi : RunLen(s, t, i, j, ahi, bhi) = k
                     /\ \A i2 \in alo..(i - 1) : \A j \in blo..bhi :
                            RunLen(s, t, i2, j, ahi, bhi) < k
        bestj == CHOOSE j \in blo..bhi :
                     /\ RunLen(s, t, besti, j, ahi, bhi) = k
                     /\ \A j2 \in blo..(j - 1) : RunLen(s, t, besti, j2, ahi, bhi) < k
    IN [i |-> besti, j |-> bestj, k |-> k]

\* get_matching_blocks: the total size of the blocks found by splitting
\* around a longest match, to the left and to the right of it
RECURSIVE MatchingSize(_, _, _, _, _, _)
MatchingSize(s, t, alo, ahi, blo, bhi) ==
    IF alo > ahi \/ blo > bhi THEN 0
    ELSE LET m == find_longest_match(s, t, alo, ahi, blo, bhi)
         IN IF m.k = 0 THEN 0
            ELSE m.k + MatchingSize(s, t, alo, m.i - 1, blo, m.j - 1)
                     + MatchingSize(s, t, m.i + m.k, ahi, m.j + m.k, bhi)

\* fuzz.ratio on difflib
difflib_ratio(s, t) ==
    IF s = <<>> \/ t = <<>> THEN 0
    ELSE RoundDiv(100 * 2 * MatchingSize(s, t, 1, Len(s), 1, Len(t)), Len(s) + Len(t))

\* The two matchers an installation of fuzzywuzzy can run on
Matchers == {"Levenshtein", "difflib"}
RatioOn(matcher, s, t) == IF matcher = "difflib" THEN difflib_ratio(s, t) ELSE ratio(s, t)

\* utils.full_process: non-alphanumerics become blanks, lower-case, strip
IsAlnum(c) == IndexIn(c, LowerLetters) > 0 \/ IndexIn(c, UpperLetters) > 0
              \/ IndexIn(c, Digits) > 0
full_process(s) == strip(lower([k \in 1..Len(s) |-> IF IsAlnum(s[k]) THEN s[k] ELSE " "]))

TokenSetRatioOn(matcher, s1, s2) ==
    LET p1 == full_process(s1)
        p2 == full_process(s2)
    IN IF p1 = <<>> \/ p2 = <<>> THEN 0
       ELSE LET tokens1 == SeqToSet(split(p1))
                tokens2 == SeqToSet(split(p2))
                sorted_sect == join(sorted(tokens1 \cap tokens2))
                sorted_1to2 == join(sorted(tokens1 \ tokens2))
                sorted_2to1 == join(sorted(tokens2 \ tokens1))
                t0 == strip(sorted_sect)
                t1 == strip(sorted_sect \o <<" ">> \o sorted_1to2)
                t2 == strip(sorted_sect \o <<" ">> \o sorted_2to1)
            IN Max(RatioOn(matcher, t0, t1),
                   Max(RatioOn(matcher, t0, t2), RatioOn(matcher, t1, t2)))

token_set_ratio(s1, s2) == TokenSetRatioOn("Levenshtein", s1, s2)

----------------------------------------------------------------------------
(* Records.  A dict field is a tagged value so that a missing key, and a   *)
(* value of the wrong type, are distinct from every well-formed value.     *)

AmtNum(v) == [t |-> "num", v |-> v]          \* a number
AmtStr(v) == [t |-> "str", v |-> v]          \* a string that float() parses to v
AmtBad == [t |-> "bad", v |-> 0]             \* None, or a string float() rejects
AmtMissing == [t |-> "missing", v |-> 0]     \* no 'amount' key
Txt(s) == [t |-> "str", s |-> s]             \* a string
TxtMissing == [t |-> "missing", s |-> <<>>]  \* no such key

Receipt(id, amount, vendor_name) ==
    [transaction_id |-> id, amount |-> amount, vendor_name |-> vendor_name]
BankTxn(id, amount, description) ==
    [transaction_id |-> id, amount |-> amount, description |-> description]

\* d.get(key, ''):  the value, or '' when the key is missing
GetText(f) == IF f.t = "missing" THEN <<>> ELSE f.s

\* float(d.get('amount', 0)): ok is FALSE when float() raises
FloatOf(a) == IF a.t = "bad" THEN [ok |-> FALSE, v |-> 0] ELSE [ok |-> TRUE, v |-> a.v]

----------------------------------------------------------------------------
(***************************************************************************)
(* Dates.  A datetime is a day number and an hour of that day, naive or    *)
(* timezone-aware (UTC); a timedelta is a number of hours.  The values a   *)
(* transaction_date can hold are tagged by their Python type.              *)
(***************************************************************************)

HoursPerDay == 24
MsPerHour == 3600000
TimesOfDay == {0, 12, 23}
date_tolerance_days == 7            \* line 17
DateParsingFailed == 999            \* line 85

DateTime(day, hour, aware) ==
    [t |-> "datetime", day |-> day, hour |-> hour, aware |-> aware]
DateTimes == {DateTime(d, h, a) : d \in 0..MaxDay, h \in TimesOfDay, a \in BOOLEAN}

\* datetime.__sub__: defined on two datetimes that are both naive or both aware
CanSubtract(date1, date2) ==
    /\ date1.t = "datetime" /\ date2.t = "datetime"
    /\ date1.aware = date2.aware
\* date1 - date2, in hours
timedelta(date1, date2) ==
    (date1.day - date2.day) * HoursPerDay + (date1.hour - date2.hour)
\* timedelta.days: the timedelta is normalised to days + a non-negative rest
TimedeltaDays(td) == td \div HoursPerDay

DateReturned(v) == [kind |-> "returned", value |-> v]
DateRaised == [kind |-> "raised"]

\* lines 148-150
_is_date_within_tolerance(date1, date2) ==
    IF ~CanSubtract(date1, date2) THEN DateRaised
    ELSE DateReturned(Abs(timedelta(date1, date2)) <= date_tolerance_days * HoursPerDay)

\* ISO strings by their form: a date only, a naive date and time, one ending
\* in Z, one ending in +00:00, and a string that is no ISO date
IsoForms == {"date", "naive", "Z", "offset"}
IsoStr(form, day, hour) == [t |-> "str", form |-> form, day |-> day, hour |-> hour]
GarbledStr == [t |-> "str", form |-> "garbled"]
\* {'$date': epoch milliseconds}, {'$date': 'an ISO string'}, a dict without '$date'
MongoDate(ms) == [t |-> "dict", has_date |-> TRUE, numeric |-> TRUE, ms |-> ms]
MongoDateStr == [t |-> "dict", has_date |-> TRUE, numeric |-> FALSE]
OtherDict == [t |-> "dict", has_date |-> FALSE]
DateNumber == [t |-> "number"]
DateNone == [t |-> "none"]

Parsed(v) == [ok |-> TRUE, v |-> v]
ParseFailed == [ok |-> FALSE]

\* line 73 / line 78: date.replace('Z', '+00:00')
ReplaceZ(date) == IF date.form = "Z" THEN [date EXCEPT !.form = "offset"] ELSE date
\* datetime.fromisoformat (a trailing Z is taken only from Python 3.11 on;
\* line 73 has replaced it before the call)
fromisoformat(date) ==
    IF date.form = "garbled" \/ date.form = "Z" THEN ParseFailed
    ELSE IF date.form = "date" THEN Parsed(DateTime(date.day, 0, FALSE))
    ELSE Parsed(DateTime(date.day, date.hour, date.form = "offset"))
\* line 71 / line 76: datetime.fromtimestamp(ms / 1000), a naive datetime
fromtimestamp(date) ==
    IF ~date.numeric THEN ParseFailed
    ELSE Parsed(DateTime((date.ms \div MsPerHour) \div HoursPerDay,
                         (date.ms \div MsPerHour) % HoursPerDay, FALSE))

\* lines 70-73 (and 75-78 for date2)
ParseDate(date) ==
    IF date.t = "dict" /\ date.has_date THEN fromtimestamp(date)
    ELSE IF date.t = "str" THEN fromisoformat(ReplaceZ(date))
    ELSE Parsed(date)

\* line 80, given the two parsed values
DateDiff(date1, date2) ==
    IF ~CanSubtract(date1, date2) THEN DateRaised
    ELSE DateReturned(Abs(TimedeltaDays(timedelta(date1, date2))))

\* lines 70-80, the body of the try
SafeDateDiffBody(p1, p2) ==
    IF ~p1.ok \/ ~p2.ok THEN DateRaised ELSE DateDiff(p1.v, p2.v)

\* variant: without the except clause
Uncaught(attempt) == attempt

\* lines 69, 81-85: what the try block gave, or 999 when it raised
Caught(attempt) ==
    IF attempt.kind = "raised" THEN DateReturned(DateParsingFailed) ELSE attempt

\* lines 69-85
_safe_date_diff(date1, date2) == Caught(SafeDateDiffBody(ParseDate(date1), ParseDate(date2)))

----------------------------------------------------------------------------
(* Scoring: AdvancedReconciliationEngine._calculate_similarity *)

Unit == 1000                        \* 1.0 in thousandths
date_score == 800                   \* 0.8
substring_vendor_score == 900       \* 0.9
date_weight == 2                    \* 0.2, in tenths
amount_weight == 4                  \* 0.4
vendor_weight == 4                  \* 0.4
confidence_threshold == 7000        \* 0.7, in ten-thousandths
amount_tolerance_percent == 100     \* 0.1, in thousandths
minimum_variance == 1               \* 1.0 currency unit

USB == <<"U","S","B">>
AMAZON == <<"A","M","A","Z","O","N">>
FUEL == <<"F","U","E","L">>
SHELL == <<"S","H","E","L","L">>
TAX == <<"T","A","X">>
WALMART == <<"W","A","L","M","A","R","T">>
WALMART_12 == <<"W","A","L","M","A","R","T"," ","#","1","2">>

vendor_mappings(v) == IF v = USB THEN AMAZON
                      ELSE IF v = FUEL THEN SHELL
                      ELSE IF v = TAX THEN WALMART
                      ELSE v

\* variant: the correction table is not applied
VendorScoreUnmapped(matcher, vendor_name, description) ==
    LET receipt_vendor == upper(vendor_name)
        bank_desc == upper(description)
        words == split(receipt_vendor)
    IN IF Contains(bank_desc, receipt_vendor)
          \/ \E k \in 1..Len(words) : Contains(bank_desc, words[k])
       THEN substring_vendor_score
       ELSE TokenSetRatioOn(matcher, receipt_vendor, bank_desc) * (Unit \div 100)

\* lines 90-108: the vendor score of a receipt vendor_name against a bank
\* description, in thousandths, on a given matcher
VendorScoreOn(matcher, vendor_name, description) ==
    LET receipt_vendor == vendor_mappings(upper(vendor_name))
        bank_desc == upper(description)
        words == split(receipt_vendor)
    IN IF Contains(bank_desc, receipt_vendor)
          \/ \E k \in 1..Len(words) : Contains(bank_desc, words[k])
       THEN substring_vendor_score
       ELSE TokenSetRatioOn(matcher, receipt_vendor, bank_desc) * (Unit \div 100)

\* on the strings of the record pools below the two matchers agree
vendor_score(vendor_name, description) ==
    VendorScoreOn("Levenshtein", vendor_name, description)

\* The strings that occur in the inputs below, and their vendor scores
\* (computed once)
VendorNames == {<<>>, WALMART, SHELL}
Descriptions == {<<>>, WALMART_12}
RECURSIVE Tabulate(_)
Tabulate(P) == IF P = {} THEN <<>>
               ELSE LET p == CHOOSE q \in P : TRUE
                    IN (p :> vendor_score(p[1], p[2])) @@ Tabulate(P \ {p})
VendorScores == Tabulate(VendorNames \X Descriptions)

\* variant: the bank amount is compared with its sign
AmountScoreSigned(receipt_amount, bank_amount) ==
    LET amount_diff == (Abs(receipt_amount - bank_amount) * Unit) \div receipt_amount
    IN Max(0, Unit - amount_diff)

\* lines 120-122: max(0, 1 - abs(receipt_amount - abs(bank_amount)) / receipt_amount)
amount_score(receipt_amount, bank_amount) ==
    LET bank_abs == Abs(bank_amount)
        amount_diff == (Abs(receipt_amount - bank_abs) * Unit) \div receipt_amount
    IN Max(0, Unit - amount_diff)

\* variant: the weights of the date and the vendor score are exchanged
FinalScoreDateHeavy(ds, as, vs) == ds * vendor_weight + as * amount_weight + vs * date_weight

\* line 125
final_score(ds, as, vs) == ds * date_weight + as * amount_weight + vs * vendor_weight

\* variant: the date score is computed from the two transaction_date values
CalculateSimilarityDated(receipt, bank) ==
    LET vs == VendorScores[<<GetText(receipt.vendor_name), GetText(bank.description)>>]
        ra == FloatOf(receipt.amount)
        ba == FloatOf(bank.amount)
        days == _safe_date_diff(receipt.transaction_date, bank.transaction_date).value
        ds == Max(0, Unit - (days * Unit) \div date_tolerance_days)
    IN IF ~ra.ok \/ ~ba.ok THEN 0
       ELSE IF ra.v = 0 THEN 0
       ELSE final_score(ds, amount_score(ra.v, ba.v), vs)

\* The whole of _calculate_similarity: every exception resolves to 0.0
_calculate_similarity(receipt, bank) ==
    LET vs == VendorScores[<<GetText(receipt.vendor_name), GetText(bank.description)>>]
        ra == FloatOf(receipt.amount)
        ba == FloatOf(bank.amount)
    IN IF ~ra.ok \/ ~ba.ok THEN 0
       ELSE IF ra.v = 0 THEN 0
       ELSE final_score(date_score, amount_score(ra.v, ba.v), vs)

\* _amounts_compatible on the raw d.get('amount', 0) values: abs() of a value
\* that is not a number raises TypeError
AmountsRaise(ra, ba) ==
    IF ra.t \in {"num", "missing"} /\ ra.v = 0 THEN FALSE     \* line 137 returns first
    ELSE ba.t \in {"str", "bad"} \/ ra.t \in {"str", "bad"}

\* variant: only the zero check, no variance test
AmountsCompatibleUnchecked(receipt_amount, bank_amount) == receipt_amount # 0

\* variant: the bank amount is compared with its sign
AmountsCompatibleSigned(receipt_amount, bank_amount) ==
    IF receipt_amount = 0 THEN FALSE
    ELSE LET receipt_abs == Abs(receipt_amount)
             variance == Max(receipt_abs * amount_tolerance_percent, minimum_variance * Unit)
         IN Abs(receipt_abs - bank_amount) * Unit <= variance

_amounts_compatible(receipt_amount, bank_amount) ==
    IF receipt_amount = 0 THEN FALSE
    ELSE LET bank_abs == Abs(bank_amount)
             receipt_abs == Abs(receipt_amount)
             variance == Max(receipt_abs * amount_tolerance_percent, minimum_variance * Unit)
         IN Abs(receipt_abs - bank_abs) * Unit <= variance

----------------------------------------------------------------------------
(* State of one AdvancedReconciliationEngine and of its current call *)

VARIABLES
    pc,                      \* "idle" | "loop" | "done" | "raised"
    ledger_transactions,     \* argument: the receipts, in input order
    bank_transactions,       \* argument: the bank records, in input order
    next_receipt,            \* position of the outer loop (line 29)
    matches,                 \* local, line 25
    used_bank_transactions,  \* local, line 26
    used_receipts,           \* local, line 27
    result,                  \* the returned dict (lines 63-67), or NoResult
    first_call,              \* history: the first call this engine completed
    earlier_calls,           \* history: calls ended before the current one
    probe,                   \* one application of a helper function, or NoProbe
    fm,                      \* the current call of find_matches, or NoFind
    ep                       \* the email pipeline: its store and its current run

vars == <<pc, ledger_transactions, bank_transactions, next_receipt, matches,
          used_bank_transactions, used_receipts, result, first_call,
          earlier_calls, probe, fm, ep>>

engine_vars == <<pc, ledger_transactions, bank_transactions, next_receipt, matches,
                 used_bank_transactions, used_receipts, result, first_call,
                 earlier_calls>>

\* A record of the input lists is referred to by its position in its list
\* (the code passes the dict objects themselves around).
NoResult == [kind |-> "none"]
Raised == [kind |-> "raised"]
NoCall == [kind |-> "none"]
NoProbe == [fn |-> "none"]
NoFind == [pc |-> "idle"]
NoRun == [pc |-> "idle", store |-> {}, runs |-> 0, emails |-> <<>>, i |-> 1,
          is_processed |-> FALSE, result |-> [filled |-> FALSE],
          processed_receipts |-> <<>>, returned |-> NoResult,
          disconnects |-> 0, disconnect_failed |-> FALSE, path |-> "none",
          log |-> <<>>, query |-> "none", save |-> "none",
          added_empty |-> {}, retired |-> {}]

\* variant: the used sets survive from the previous call
KeptUsedSet(previous) == previous

\* line 26 / line 27: the sets start empty in every call
NewUsedSet(previous) == {}

\* variant: the used sets are never consulted
NeverUsed(id, used) == FALSE

\* line 30 / line 37: the id is in the used set
IsUsed(id, used) == id \in used

\* variant: the id is not added
MarkUsedForgotten(used, id) == used

\* line 58 / line 59: used.add(id)
MarkUsed(used, id) == used \cup {id}

\* variant: a threshold of 0.6
AboveLowerThreshold(confidence) == confidence > 6000

\* line 44, first conjunct
AboveThreshold(confidence) == confidence > confidence_threshold

\* variant: a candidate as good as the best so far replaces it (>= for >)
ConsiderLastWins(receipt, bank, k, confidence, best_match, best_confidence) ==
    IF ~AboveThreshold(confidence)
    THEN [raised |-> FALSE, best_match |-> best_match, best_confidence |-> best_confidence]
    ELSE IF AmountsRaise(receipt.amount, bank.amount)
    THEN [raised |-> TRUE, best_match |-> 0, best_confidence |-> 0]
    ELSE IF _amounts_compatible(receipt.amount.v, bank.amount.v)
            /\ confidence >= best_confidence
    THEN [raised |-> FALSE, best_match |-> k, best_confidence |-> confidence]
    ELSE [raised |-> FALSE, best_match |-> best_match, best_confidence |-> best_confidence]

\* lines 44-48: what the scan does with the bank record at position k, whose
\* confidence has been computed; raised when line 45 raises
Consider(receipt, bank, k, confidence, best_match, best_confidence) ==
    IF ~AboveThreshold(confidence)
    THEN [raised |-> FALSE, best_match |-> best_match, best_confidence |-> best_confidence]
    ELSE IF AmountsRaise(receipt.amount, bank.amount)
    THEN [raised |-> TRUE, best_match |-> 0, best_confidence |-> 0]
    ELSE IF _amounts_compatible(receipt.amount.v, bank.amount.v)
            /\ confidence > best_confidence
    THEN [raised |-> FALSE, best_match |-> k, best_confidence |-> confidence]
    ELSE [raised |-> FALSE, best_match |-> best_match, best_confidence |-> best_confidence]

RECURSIVE BankLoop(_, _, _, _, _, _)

\* variant: the scan ends at the first record that is not taken (break)
ScanOnStopsEarly(receipt, banks, used, k, step) ==
    IF step.raised \/ step.best_match # k THEN step
    ELSE BankLoop(receipt, banks, used, k + 1, step.best_match, step.best_confidence)

\* line 36: the scan goes on to the next bank record unless line 45 raised
ScanOn(receipt, banks, used, k, step) ==
    IF step.raised THEN step
    ELSE BankLoop(receipt, banks, used, k + 1, step.best_match, step.best_confidence)

\* lines 36-48: the scan of the bank records for one receipt, from position k on
BankLoop(receipt, banks, used, k, best_match, best_confidence) ==
    IF k > Len(banks)
    THEN [raised |-> FALSE, best_match |-> best_match, best_confidence |-> best_confidence]
    ELSE IF IsUsed(banks[k].transaction_id, used)
    THEN BankLoop(receipt, banks, used, k + 1, best_match, best_confidence)
    ELSE ScanOn(receipt, banks, used, k,
                Consider(receipt, banks[k], k, _calculate_similarity(receipt, banks[k]),
                         best_match, best_confidence))

\* line 51: the log message reads best_match['description']
LogMatchRaises(best) == best.description.t = "missing"

\* variant: no filter, every position is returned
RECURSIVE UnmatchedUnfiltered(_, _, _)
UnmatchedUnfiltered(txns, used, k) ==
    IF k > Len(txns) THEN <<>> ELSE <<k>> \o UnmatchedUnfiltered(txns, used, k + 1)

\* variant: the filter is inverted (in instead of not in)
RECURSIVE UnmatchedInverted(_, _, _)
UnmatchedInverted(txns, used, k) ==
    IF k > Len(txns) THEN <<>>
    ELSE IF txns[k].transaction_id \in used
         THEN <<k>> \o UnmatchedInverted(txns, used, k + 1)
         ELSE UnmatchedInverted(txns, used, k + 1)

\* variant: a record is filtered out only when no earlier record has its id
RECURSIVE UnmatchedFirstOccurrence(_, _, _)
UnmatchedFirstOccurrence(txns, used, k) ==
    IF k > Len(txns) THEN <<>>
    ELSE IF txns[k].transaction_id \notin used
            \/ \E e \in 1..(k - 1) : txns[e].transaction_id = txns[k].transaction_id
         THEN <<k>> \o UnmatchedFirstOccurrence(txns, used, k + 1)
         ELSE UnmatchedFirstOccurrence(txns, used, k + 1)

\* variant: nothing is reported unmatched when an input list is empty
RECURSIVE UnmatchedEarlyExit(_, _, _)
UnmatchedEarlyExit(txns, used, k) ==
    IF ledger_transactions = <<>> \/ bank_transactions = <<>> \/ k > Len(txns)
    THEN <<>>
    ELSE IF txns[k].transaction_id \notin used
         THEN <<k>> \o UnmatchedEarlyExit(txns, used, k + 1)
         ELSE UnmatchedEarlyExit(txns, used, k + 1)

\* lines 65-66: the positions of the records whose id is not in the used set
RECURSIVE Unmatched(_, _, _)
Unmatched(txns, used, k) ==
    IF k > Len(txns) THEN <<>>
    ELSE IF txns[k].transaction_id \notin used
         THEN <<k>> \o Unmatched(txns, used, k + 1)
         ELSE Unmatched(txns, used, k + 1)

CompletedCall(res) ==
    [kind |-> "call", ledger |-> ledger_transactions, bank |-> bank_transactions,
     result |-> res]

RecordFirst(res) == IF first_call = NoCall THEN CompletedCall(res) ELSE first_call

EngineInit ==
    /\ pc = "idle"
    /\ ledger_transactions = <<>>
    /\ bank_transactions = <<>>
    /\ next_receipt = 1
    /\ matches = <<>>
    /\ used_bank_transactions = {}
    /\ used_receipts = {}
    /\ result = NoResult
    /\ first_call = NoCall
    /\ earlier_calls = 0

Init ==
    /\ EngineInit
    /\ probe = NoProbe
    /\ fm = NoFind
    /\ ep = NoRun

\* lines 21-27: entry of reconcile_transactions(ledger, bank)
reconcile_transactions(ledger, bank) ==
    /\ ledger_transactions' = ledger
    /\ bank_transactions' = bank
    /\ matches' = <<>>
    /\ used_bank_transactions' = NewUsedSet(used_bank_transactions)
    /\ used_receipts' = NewUsedSet(used_receipts)
    /\ next_receipt' = 1
    /\ result' = NoResult
    /\ pc' = "loop"
    /\ earlier_calls' = IF pc = "idle" THEN 0
                        ELSE IF earlier_calls < MaxEarlierCalls THEN earlier_calls + 1
                        ELSE earlier_calls
    /\ UNCHANGED <<first_call, probe, fm, ep>>

\* lines 30-61: the loop body for one receipt, given the outcome of its scan
IterateOn(receipt, scan) ==
    IF IsUsed(receipt.transaction_id, used_receipts)
    THEN /\ next_receipt' = next_receipt + 1
         /\ UNCHANGED <<pc, matches, used_bank_transactions, used_receipts,
                        result, first_call>>
    ELSE IF scan.raised
            \/ (scan.best_match # 0
                /\ LogMatchRaises(bank_transactions[scan.best_match]))
    THEN /\ pc' = "raised"
         /\ result' = Raised
         /\ first_call' = RecordFirst(Raised)
         /\ UNCHANGED <<next_receipt, matches, used_bank_transactions,
                        used_receipts>>
    ELSE IF scan.best_match # 0
    THEN /\ matches' = Append(matches,
                 [receipt |-> next_receipt,
                  bank_transaction |-> scan.best_match,
                  confidence |-> scan.best_confidence,
                  match_type |-> "semantic"])
         /\ used_receipts' = MarkUsed(used_receipts, receipt.transaction_id)
         /\ used_bank_transactions' = MarkUsed(used_bank_transactions,
                 bank_transactions[scan.best_match].transaction_id)
         /\ next_receipt' = next_receipt + 1
         /\ UNCHANGED <<pc, result, first_call>>
    ELSE /\ next_receipt' = next_receipt + 1
         /\ UNCHANGED <<pc, matches, used_bank_transactions, used_receipts,
                        result, first_call>>

\* lines 29-61: one pass of the outer loop body
Iterate ==
    /\ pc = "loop"
    /\ next_receipt <= Len(ledger_transactions)
    /\ IterateOn(ledger_transactions[next_receipt],
                 BankLoop(ledger_transactions[next_receipt], bank_transactions,
                          used_bank_transactions, 1, 0, 0))
    /\ UNCHANGED <<ledger_transactions, bank_transactions, earlier_calls, probe, fm, ep>>

\* the records of txns at the positions listed in q
RecordsAt(txns, q) == [k \in 1..Len(q) |-> txns[q[k]]]

\* variant: the unmatched lists are made by deleting the matched records
\* from the input lists in place
ReturnDeletingMatched ==
    /\ pc = "loop"
    /\ next_receipt > Len(ledger_transactions)
    /\ LET res == [kind |-> "outcome",
                   matches |-> matches,
                   unmatched_ledger |-> Unmatched(ledger_transactions, used_receipts, 1),
                   unmatched_bank |-> Unmatched(bank_transactions, used_bank_transactions, 1)]
       IN /\ result' = res
          /\ first_call' = RecordFirst(res)
          /\ ledger_transactions' = RecordsAt(ledger_transactions, res.unmatched_ledger)
          /\ bank_transactions' = RecordsAt(bank_transactions, res.unmatched_bank)
    /\ pc' = "done"
    /\ UNCHANGED <<next_receipt, matches, used_bank_transactions, used_receipts,
                   earlier_calls, probe, fm, ep>>

\* lines 63-67
Return ==
    /\ pc = "loop"
    /\ next_receipt > Len(ledger_transactions)
    /\ LET res == [kind |-> "outcome",
                   matches |-> matches,
                   unmatched_ledger |-> Unmatched(ledger_transactions, used_receipts, 1),
                   unmatched_bank |-> Unmatched(bank_transactions, used_bank_transactions, 1)]
       IN /\ result' = res
          /\ first_call' = RecordFirst(res)
    /\ pc' = "done"
    /\ UNCHANGED <<ledger_transactions, bank_transactions, next_receipt, matches,
                   used_bank_transactions, used_receipts, earlier_calls, probe, fm, ep>>

----------------------------------------------------------------------------
(* Inputs *)

SeqsUpTo(S, n) == UNION {[1..k -> S] : k \in 0..n}

\* Well-formed records; transaction_ids may repeat within a list
ReceiptPool == {Receipt(id, AmtNum(a), Txt(v)) :
                    id \in {"r1", "r2"}, a \in {0, 100}, v \in {WALMART, SHELL}}
BankPool == {BankTxn(id, AmtNum(a), Txt(WALMART_12)) :
                    id \in {"b1", "b2"}, a \in {-100, -95, -80}}

\* The same with receipts of negative amount (the code takes any number)
SignedReceiptPool ==
    {Receipt(id, AmtNum(a), Txt(WALMART)) : id \in {"r1", "r2"}, a \in {0, 100, -100}}
    \cup {Receipt(id, AmtNum(100), Txt(SHELL)) : id \in {"r1", "r2"}}

\* Bank records of either sign (a refund, or a feed that reports debits as
\* positive numbers)
SignedBankPool == {BankTxn(id, AmtNum(a), Txt(WALMART_12)) :
                       id \in {"b1", "b2"}, a \in {-100, 100, -80}}

\* Records of which at most one field is missing or of the wrong type
MalformedReceiptPool ==
    {Receipt(id, a, Txt(WALMART)) :
         id \in {"r1", "r2"}, a \in {AmtNum(100), AmtStr(100), AmtBad, AmtMissing}}
    \cup {Receipt(id, AmtNum(100), v) : id \in {"r1", "r2"}, v \in {Txt(<<>>), TxtMissing}}
MalformedBankPool ==
    {BankTxn(id, a, Txt(WALMART_12)) :
         id \in {"b1", "b2"}, a \in {AmtNum(-100), AmtStr(-100), AmtMissing}}
    \cup {BankTxn(id, AmtNum(-100), TxtMissing) : id \in {"b1", "b2"}}

\* A small pool for repeated calls on one engine
RerunReceiptPool == {Receipt(id, AmtNum(100), Txt(WALMART)) : id \in {"r1", "r2"}}
RerunBankPool == {BankTxn("b1", AmtNum(-100), Txt(WALMART_12))}

\* Records that carry a transaction_date
TransactionDates == {DateTime(0, 0, FALSE), IsoStr("date", MaxDay, 0)}
DatedReceipt(id, amount, vendor_name, date) ==
    [transaction_id |-> id, amount |-> amount, vendor_name |-> vendor_name,
     transaction_date |-> date]
DatedBankTxn(id, amount, description, date) ==
    [transaction_id |-> id, amount |-> amount, description |-> description,
     transaction_date |-> date]
DatedReceiptPool ==
    {DatedReceipt(id, AmtNum(100), Txt(WALMART), d) :
         id \in {"r1", "r2"}, d \in TransactionDates}
DatedBankPool ==
    {DatedBankTxn("b1", AmtNum(-100), Txt(WALMART_12), d) : d \in TransactionDates}

\* the list txns with the transaction_date values replaced by those of dates
Redated(txns, dates) ==
    [k \in 1..Len(txns) |-> [txns[k] EXCEPT !.transaction_date = dates[k]]]

\* ui/pages.py:238-239: a fresh engine performs one call
Call ==
    /\ pc = "idle"
    /\ \E ledger \in SeqsUpTo(ReceiptPool, MaxReceipts),
          bank \in SeqsUpTo(BankPool, MaxBank) :
            reconcile_transactions(ledger, bank)

CallSigned ==
    /\ pc = "idle"
    /\ \E ledger \in SeqsUpTo(SignedReceiptPool, MaxReceipts),
          bank \in SeqsUpTo(SignedBankPool, MaxBank) :
            reconcile_transactions(ledger, bank)

CallMalformed ==
    /\ pc = "idle"
    /\ \E ledger \in SeqsUpTo(MalformedReceiptPool, MaxReceipts),
          bank \in SeqsUpTo(MalformedBankPool, MaxBank) :
            reconcile_transactions(ledger, bank)

\* a call in which one of the two lists is empty
CallOneSided ==
    /\ pc = "idle"
    /\ \E ledger \in SeqsUpTo(MalformedReceiptPool, MaxReceipts),
          bank \in SeqsUpTo(MalformedBankPool, MaxBank) :
            /\ ledger = <<>> \/ bank = <<>>
            /\ reconcile_transactions(ledger, bank)

\* Equal receipts against bank records that tie or differ in confidence
TieBankPool == {BankTxn(id, AmtNum(a), Txt(WALMART_12)) :
                    id \in {"b1", "b2"}, a \in {-100, -95}}

CallTies ==
    /\ pc = "idle"
    /\ \E ledger \in SeqsUpTo(RerunReceiptPool, MaxReceipts),
          bank \in SeqsUpTo(TieBankPool, MaxTieBank) :
            reconcile_transactions(ledger, bank)

\* the same engine called again after a call has ended
CallAgain ==
    /\ pc \in {"idle", "done", "raised"}
    /\ \E ledger \in SeqsUpTo(RerunReceiptPool, MaxReceipts),
          bank \in SeqsUpTo(RerunBankPool, MaxBank) :
            reconcile_transactions(ledger, bank)

\* a fresh engine is called on records that carry dates
CallDated ==
    /\ pc = "idle"
    /\ \E ledger \in SeqsUpTo(DatedReceiptPool, MaxReceipts),
          bank \in SeqsUpTo(DatedBankPool, MaxBank) :
            reconcile_transactions(ledger, bank)

\* the engine is called once more, on the lists of its first call with any
\* transaction_date values in place of the first ones
CallRedated ==
    /\ pc = "done"
    /\ earlier_calls = 0
    /\ \E ledger_dates \in [1..Len(first_call.ledger) -> TransactionDates],
          bank_dates \in [1..Len(first_call.bank) -> TransactionDates] :
            reconcile_transactions(Redated(first_call.ledger, ledger_dates),
                                   Redated(first_call.bank, bank_dates))

Next == Call \/ Iterate \/ Return
Spec == Init /\ [][Next]_vars

NextSigned == CallSigned \/ Iterate \/ Return
SpecSigned == Init /\ [][NextSigned]_vars

NextMalformed == CallMalformed \/ Iterate \/ Return
SpecMalformed == Init /\ [][NextMalformed]_vars

NextRerun == CallAgain \/ Iterate \/ Return
SpecRerun == Init /\ [][NextRerun]_vars

NextTies == CallTies \/ Iterate \/ Return
SpecTies == Init /\ [][NextTies]_vars

NextOneSided == CallOneSided \/ Iterate \/ Return
SpecOneSided == Init /\ [][NextOneSided]_vars

NextDated == CallDated \/ CallRedated \/ Iterate \/ Return
SpecDated == Init /\ [][NextDated]_vars

----------------------------------------------------------------------------
(* IntelligentReconciliation.find_matches                                  *)
(* (services/intelligent_reconciliation.py).  The vectors come from an     *)
(* external provider, so the cosine similarities are any values of         *)
(* SimLevels, in ten-thousandths.                                          *)

semantic_threshold == 7000          \* 0.7, line 32
SimLevels == {7000, 9000}

\* CustomEmbedding._embed: the vectors of the batch, or the provider's error
EmbedOutcomes == {"vectors", "error"}

\* variant: the error is caught and an empty batch is returned
EmbedTransactionsCaught(outcome) == "vectors"

\* reconciliation_embeddings.py:19-23: returns what _embed returns; nothing
\* catches what it raises
embed_transactions(outcome) == outcome

\* variant: the last position of the maximum of a row
ArgMaxLast(row) == CHOOSE k \in 1..Len(row) :
                       /\ \A j \in 1..Len(row) : row[j] <= row[k]
                       /\ \A j \in (k + 1)..Len(row) : row[j] < row[k]

\* np.argmax: the first position of the maximum of a row
ArgMax(row) == CHOOSE k \in 1..Len(row) :
                   /\ \A j \in 1..Len(row) : row[j] <= row[k]
                   /\ \A j \in 1..(k - 1) : row[j] < row[k]

FindReceiptPool == {Receipt(id, AmtNum(100), Txt(WALMART)) : id \in {"r1", "r2"}}
FindBankPool == {BankTxn(id, AmtNum(-100), Txt(WALMART_12)) : id \in {"b1", "b2"}}

\* lines 10-18: entry, the early return on an empty list, the texts
find_matches(receipts, bank) ==
    /\ fm.pc = "idle"
    /\ fm' = [pc |-> IF receipts = <<>> \/ bank = <<>> THEN "returned"
                     ELSE "embed_receipts",
              receipts |-> receipts,
              bank_transactions |-> bank,
              failed |-> FALSE,
              similarity_matrix |-> <<>>,
              i |-> 1,
              matches |-> <<>>,
              result |-> IF receipts = <<>> \/ bank = <<>>
                         THEN [kind |-> "list", matches |-> <<>>]
                         ELSE NoResult]
    /\ UNCHANGED <<engine_vars, probe, ep>>

\* line 20 and line 21: one call of embed_transactions
Embed(at, then) ==
    /\ fm.pc = at
    /\ \E outcome \in EmbedOutcomes :
          IF embed_transactions(outcome) = "error"
          THEN fm' = [fm EXCEPT !.pc = "raised", !.result = Raised,
                                !.failed = (outcome = "error")]
          ELSE fm' = [fm EXCEPT !.pc = then,
                                !.failed = fm.failed \/ (outcome = "error")]
    /\ UNCHANGED <<engine_vars, probe, ep>>

EmbedReceipts == Embed("embed_receipts", "embed_bank")
EmbedBank == Embed("embed_bank", "similarity")

\* lines 24-26
Similarity ==
    /\ fm.pc = "similarity"
    /\ \E m \in [1..Len(fm.receipts) -> [1..Len(fm.bank_transactions) -> SimLevels]] :
          fm' = [fm EXCEPT !.pc = "loop", !.similarity_matrix = m,
                           !.matches = <<>>, !.i = 1]
    /\ UNCHANGED <<engine_vars, probe, ep>>

\* variant: the bank record of an emitted candidate is marked in the input list
FindIterateConsuming ==
    /\ fm.pc = "loop"
    /\ fm.i <= Len(fm.receipts)
    /\ LET row == fm.similarity_matrix[fm.i]
           best_match_idx == ArgMax(row)
           confidence == row[best_match_idx]
       IN fm' = [fm EXCEPT
                   !.i = fm.i + 1,
                   !.bank_transactions =
                       IF confidence > semantic_threshold
                       THEN [k \in 1..Len(fm.bank_transactions) |->
                                IF k = best_match_idx
                                THEN [fm.bank_transactions[k] EXCEPT !.amount = AmtMissing]
                                ELSE fm.bank_transactions[k]]
                       ELSE fm.bank_transactions,
                   !.matches = IF confidence > semantic_threshold
                               THEN Append(fm.matches,
                                        [receipt |-> fm.i,
                                         bank_transaction |-> best_match_idx,
                                         confidence |-> confidence,
                                         match_type |-> "semantic"])
                               ELSE fm.matches]
    /\ UNCHANGED <<engine_vars, probe, ep>>

\* lines 27-38: one pass of the loop
FindIterate ==
    /\ fm.pc = "loop"
    /\ fm.i <= Len(fm.receipts)
    /\ LET row == fm.similarity_matrix[fm.i]
           best_match_idx == ArgMax(row)
           confidence == row[best_match_idx]
       IN fm' = [fm EXCEPT
                   !.i = fm.i + 1,
                   !.matches = IF confidence > semantic_threshold
                               THEN Append(fm.matches,
                                        [receipt |-> fm.i,
                                         bank_transaction |-> best_match_idx,
                                         confidence |-> confidence,
                                         match_type |-> "semantic"])
                               ELSE fm.matches]
    /\ UNCHANGED <<engine_vars, probe, ep>>

\* line 40
FindReturn ==
    /\ fm.pc = "loop"
    /\ fm.i > Len(fm.receipts)
    /\ fm' = [fm EXCEPT !.pc = "returned",
                        !.result = [kind |-> "list", matches |-> fm.matches]]
    /\ UNCHANGED <<engine_vars, probe, ep>>

CallFind ==
    \E receipts \in SeqsUpTo(FindReceiptPool, MaxReceipts),
       bank \in SeqsUpTo(FindBankPool, MaxBank) :
        find_matches(receipts, bank)

NextFind == CallFind \/ EmbedReceipts \/ EmbedBank \/ Similarity \/ FindIterate
            \/ FindReturn
SpecFind == Init /\ [][NextFind]_vars

----------------------------------------------------------------------------
(***************************************************************************)
(* EmailProcessingPipeline.run (services/email_pipeline.py) on the store   *)
(* of processed message ids (database/operations.py).  The email service   *)
(* and the store are external: each call on them has any of its outcomes.  *)
(***************************************************************************)

\* What happens to one attachment in process_single_email: it is stored as a
\* receipt; open()/write() raises; building the receipt raises; the PDF
\* processor returns a dict with an 'error' key
AttachmentKinds == {"ok", "download_error", "extraction_error", "error_result"}

Attachments(list) == [readable |-> TRUE, list |-> list]
\* an 'attachments' value that cannot be iterated (None)
Unreadable == [readable |-> FALSE, list |-> <<>>]
Email(id, attachments) == [id |-> id, attachments |-> attachments]
EmailPool ==
    {Email(id, a) :
        id \in {"m1", "m2"},
        a \in {Attachments(<<"ok">>),
               Attachments(<<"download_error", "extraction_error", "error_result">>),
               Unreadable}}

\* line 90: receipt_data = {}
EmptyReceipt == [filled |-> FALSE]
\* lines 108-121: the receipt built from attachment k of the email
ReceiptFrom(email, k) == [filled |-> TRUE, email |-> email.id, attachment |-> k]

\* lines 92-140: the loop over the attachments, from position k on
RECURSIVE AttachmentLoop(_, _, _)
AttachmentLoop(email, k, receipt_data) ==
    IF k > Len(email.attachments.list) THEN receipt_data
    ELSE IF email.attachments.list[k] = "ok"
    THEN AttachmentLoop(email, k + 1, ReceiptFrom(email, k))      \* lines 105-134
    ELSE AttachmentLoop(email, k + 1, receipt_data)               \* lines 136, 138-140

\* lines 85-142: raised when line 92 cannot iterate
process_single_email(email) ==
    IF ~email.attachments.readable
    THEN [raised |-> TRUE, receipt_data |-> EmptyReceipt]
    ELSE [raised |-> FALSE, receipt_data |-> AttachmentLoop(email, 1, EmptyReceipt)]

QueryOutcomes == {"answered", "failed"}
SaveOutcomes == {"saved", "failed"}

\* operations.py:121-132: False when the query raises
is_email_processed(store, message_id, outcome) ==
    IF outcome = "failed" THEN FALSE ELSE message_id \in store

\* operations.py:109-119: the store after the call; a failed save leaves it
add_processed_email(store, message_id, outcome) ==
    IF outcome = "failed" THEN store ELSE store \cup {message_id}

\* variant: the finally clause is missing, the run returns at once
LeaveWithoutFinally(e, path) ==
    [e EXCEPT !.pc = "returned", !.path = path,
              !.returned = [kind |-> "list", receipts |-> e.processed_receipts]]

\* lines 44, 53, 73-78: every way out of the try block leads to the finally
\* clause
Leave(e, path) == [e EXCEPT !.pc = "disconnect", !.path = path]

\* lines 58, 71: the loop goes on with the next email, or ends
NextEmail(e) ==
    IF e.i + 1 > Len(e.emails) THEN Leave(e, "completed")
    ELSE [e EXCEPT !.pc = "check", !.i = e.i + 1]

\* variant: the error of one email ends the loop
OnEmailErrorAbort(e) == Leave(e, "email_error")

\* lines 69-71: the error of one email is logged and the loop continues
OnEmailError(e) == NextEmail(e)

\* variant: every email is processed
ShouldProcessAlways(is_processed) == TRUE

\* line 61: if not is_email_processed(email_id)
ShouldProcess(is_processed) == ~is_processed

\* variant: add_processed_email is called only when a receipt was extracted
RecordsWhenReceipt(receipt_data) == receipt_data.filled

\* line 66: add_processed_email is called whatever the result is
Records(receipt_data) == TRUE

Logged(e, outcome) == Append(e.log, [id |-> e.emails[e.i].id, outcome |-> outcome])

\* lines 32-40: a pipeline object starts a run; the store is what earlier
\* runs left
RunStart ==
    /\ ep.pc \in {"idle", "returned"}
    /\ ep.runs < MaxRuns
    /\ ep' = [ep EXCEPT !.pc = "connect", !.runs = ep.runs + 1, !.emails = <<>>,
                        !.i = 1, !.is_processed = FALSE, !.result = EmptyReceipt,
                        !.processed_receipts = <<>>, !.returned = NoResult,
                        !.disconnects = 0, !.disconnect_failed = FALSE,
                        !.path = "none", !.log = <<>>,
                        !.query = "none", !.save = "none",
                        !.added_empty = {},
                        !.retired = ep.retired \cup ep.added_empty]
    /\ UNCHANGED <<engine_vars, probe, fm>>

\* lines 41-44: connect returns True or False, or raises
Connect ==
    /\ ep.pc = "connect"
    /\ \E outcome \in {"connected", "refused", "error"} :
          ep' = IF outcome = "connected" THEN [ep EXCEPT !.pc = "fetch"]
                ELSE Leave(ep, outcome)
    /\ UNCHANGED <<engine_vars, probe, fm>>

\* lines 48-56: fetch_emails_with_pdf returns a list, or raises
Fetch ==
    /\ ep.pc = "fetch"
    /\ \/ ep' = Leave(ep, "fetch_error")
       \/ \E emails \in SeqsUpTo(EmailPool, MaxEmails) :
             ep' = IF emails = <<>> THEN Leave(ep, "no_emails")
                   ELSE [ep EXCEPT !.pc = "check", !.emails = emails, !.i = 1]
    /\ UNCHANGED <<engine_vars, probe, fm>>

\* lines 61-62, 67-68: the branch on what is_email_processed returned
Checked(e, is_processed) ==
    IF ShouldProcess(is_processed)
    THEN [e EXCEPT !.pc = "process", !.is_processed = is_processed]
    ELSE [NextEmail(e) EXCEPT !.is_processed = is_processed,
                              !.log = Logged(e, "skipped")]

\* lines 60-61, 67-68: the store is asked about the email's id
CheckProcessed ==
    /\ ep.pc = "check"
    /\ \E outcome \in QueryOutcomes :
          ep' = [Checked(ep, is_email_processed(ep.store, ep.emails[ep.i].id, outcome))
                    EXCEPT !.query = outcome]
    /\ UNCHANGED <<engine_vars, probe, fm>>

\* lines 62-63, 69-71: process_single_email on the current email
ProcessSingleEmail ==
    /\ ep.pc = "process"
    /\ ep' = IF process_single_email(ep.emails[ep.i]).raised
             THEN [OnEmailError(ep) EXCEPT !.log = Logged(ep, "raised")]
             ELSE [ep EXCEPT !.pc = "record",
                             !.result = process_single_email(ep.emails[ep.i]).receipt_data]
    /\ UNCHANGED <<engine_vars, probe, fm>>

\* lines 64-66: the result is kept when it is not empty, the id is recorded
AddProcessed ==
    /\ ep.pc = "record"
    /\ \E outcome \in SaveOutcomes :
          ep' = [NextEmail(ep) EXCEPT
                    !.processed_receipts =
                        IF ep.result.filled THEN Append(ep.processed_receipts, ep.result)
                        ELSE ep.processed_receipts,
                    !.store = IF Records(ep.result)
                              THEN add_processed_email(ep.store, ep.emails[ep.i].id, outcome)
                              ELSE ep.store,
                    !.added_empty = IF Records(ep.result) /\ ~ep.result.filled
                                    THEN ep.added_empty \cup {ep.emails[ep.i].id}
                                    ELSE ep.added_empty,
                    !.save = IF Records(ep.result) THEN outcome ELSE "none",
                    !.log = Logged(ep, IF Records(ep.result) THEN "added" ELSE "returned")]
    /\ UNCHANGED <<engine_vars, probe, fm>>

\* lines 75-83: disconnect returns or raises, and run returns its list
Disconnect ==
    /\ ep.pc = "disconnect"
    /\ \E outcome \in {"disconnected", "error"} :
          ep' = [ep EXCEPT !.pc = "returned",
                           !.disconnects = ep.disconnects + 1,
                           !.disconnect_failed = (outcome = "error"),
                           !.returned = [kind |-> "list",
                                         receipts |-> ep.processed_receipts]]
    /\ UNCHANGED <<engine_vars, probe, fm>>

NextPipeline == RunStart \/ Connect \/ Fetch \/ CheckProcessed \/ ProcessSingleEmail
                \/ AddProcessed \/ Disconnect
SpecPipeline == Init /\ [][NextPipeline]_vars

----------------------------------------------------------------------------
(* The helper functions applied on their own: the arguments are drawn in   *)
(* the initial state, one step applies the function.                       *)

RatioAlphabet == {"a", "b", "c", " "}

InitRatio ==
    /\ EngineInit
    /\ fm = NoFind
    /\ ep = NoRun
    /\ \E matcher \in Matchers, s1, s2 \in SeqsUpTo(RatioAlphabet, MaxStrLen) :
          probe = [fn |-> "token_set_ratio", matcher |-> matcher,
                   s1 |-> s1, s2 |-> s2, done |-> FALSE, out |-> 0]

\* line 108: fuzz.token_set_ratio(s1, s2)
ApplyTokenSetRatio ==
    /\ probe.fn = "token_set_ratio"
    /\ ~probe.done
    /\ probe' = [probe EXCEPT !.done = TRUE,
                              !.out = TokenSetRatioOn(probe.matcher, probe.s1, probe.s2)]
    /\ UNCHANGED <<engine_vars, fm, ep>>

NextRatio == ApplyTokenSetRatio
SpecRatio == InitRatio /\ [][NextRatio]_vars

InitAmounts ==
    /\ EngineInit
    /\ fm = NoFind
    /\ ep = NoRun
    /\ \E r, b \in (-MaxAmount)..MaxAmount :
          probe = [fn |-> "_amounts_compatible", receipt_amount |-> r,
                   bank_amount |-> b, done |-> FALSE, out |-> FALSE]

\* lines 135-146
ApplyAmountsCompatible ==
    /\ probe.fn = "_amounts_compatible"
    /\ ~probe.done
    /\ probe' = [probe EXCEPT
                    !.done = TRUE,
                    !.out = _amounts_compatible(probe.receipt_amount, probe.bank_amount)]
    /\ UNCHANGED <<engine_vars, fm, ep>>

NextAmounts == ApplyAmountsCompatible
SpecAmounts == InitAmounts /\ [][NextAmounts]_vars

\* One receipt and one bank record: any sign of amount, amounts given as
\* strings, unparsable or missing, a missing vendor_name or description
ScoreReceiptPool ==
    {Receipt("r1", a, v) :
        a \in {AmtNum(-100), AmtNum(0), AmtNum(40), AmtNum(100), AmtStr(100),
               AmtBad, AmtMissing},
        v \in {Txt(WALMART), Txt(SHELL), TxtMissing}}
ScoreBankPool ==
    {BankTxn("b1", a, d) :
        a \in {AmtNum(-250), AmtNum(-100), AmtNum(-95), AmtNum(0), AmtNum(100),
               AmtStr(-100), AmtBad, AmtMissing},
        d \in {Txt(WALMART_12), TxtMissing}}

InitScore ==
    /\ EngineInit
    /\ fm = NoFind
    /\ ep = NoRun
    /\ \E receipt \in ScoreReceiptPool, bank \in ScoreBankPool :
          probe = [fn |-> "_calculate_similarity", receipt |-> receipt,
                   bank |-> bank, done |-> FALSE, out |-> 0]

\* lines 87-133
ApplyCalculateSimilarity ==
    /\ probe.fn = "_calculate_similarity"
    /\ ~probe.done
    /\ probe' = [probe EXCEPT !.done = TRUE,
                              !.out = _calculate_similarity(probe.receipt, probe.bank)]
    /\ UNCHANGED <<engine_vars, fm, ep>>

NextScore == ApplyCalculateSimilarity
SpecScore == InitScore /\ [][NextScore]_vars

\* Vendor names and descriptions: keys of the correction table in either
\* case, names that occur in a description whole or by one word, and names
\* that do not
ProbeVendorNames == {
    <<>>,    \* ''
    <<"u","s","b">>,    \* 'usb'
    <<"U","S","B">>,    \* 'USB'
    <<"F","u","e","l">>,    \* 'Fuel'
    <<"T","A","X">>,    \* 'TAX'
    <<"W","A","L","M","A","R","T">>,    \* 'WALMART'
    <<"S","H","E","L","L">>,    \* 'SHELL'
    <<"w","a","l"," ","m","a","r","t">>,    \* 'wal mart'
    <<"a","b","a">>,    \* 'aba'
    <<"u","s","b"," ","h","u","b">>}    \* 'usb hub'
ProbeDescriptions == {
    <<>>,    \* ''
    <<"A","M","A","Z","O","N"," ","M","K","T","P">>,    \* 'AMAZON MKTP'
    <<"W","a","l","m","a","r","t"," ","#","1","2">>,    \* 'Walmart #12'
    <<"S","H","E","L","L"," ","O","I","L">>,    \* 'SHELL OIL'
    <<"b","c","a">>,    \* 'bca'
    <<"M","A","R","T">>}    \* 'MART'

InitVendor ==
    /\ EngineInit
    /\ fm = NoFind
    /\ ep = NoRun
    /\ \E matcher \in Matchers, v \in ProbeVendorNames, d \in ProbeDescriptions :
          probe = [fn |-> "vendor_score", matcher |-> matcher, vendor_name |-> v,
                   description |-> d, done |-> FALSE, out |-> 0]

\* lines 90-108
ApplyVendorScore ==
    /\ probe.fn = "vendor_score"
    /\ ~probe.done
    /\ probe' = [probe EXCEPT
                    !.done = TRUE,
                    !.out = VendorScoreOn(probe.matcher, probe.vendor_name,
                                          probe.description)]
    /\ UNCHANGED <<engine_vars, fm, ep>>

NextVendor == ApplyVendorScore
SpecVendor == InitVendor /\ [][NextVendor]_vars

----------------------------------------------------------------------------
\* _is_date_within_tolerance on two datetimes
InitTolerance ==
    /\ EngineInit
    /\ fm = NoFind
    /\ ep = NoRun
    /\ \E d1, d2 \in DateTimes :
          probe = [fn |-> "_is_date_within_tolerance", date1 |-> d1, date2 |-> d2,
                   done |-> FALSE, out |-> DateRaised]

\* lines 148-150
ApplyIsDateWithinTolerance ==
    /\ probe.fn = "_is_date_within_tolerance"
    /\ ~probe.done
    /\ probe' = [probe EXCEPT
                    !.done = TRUE,
                    !.out = _is_date_within_tolerance(probe.date1, probe.date2)]
    /\ UNCHANGED <<engine_vars, fm, ep>>

NextTolerance == ApplyIsDateWithinTolerance
SpecTolerance == InitTolerance /\ [][NextTolerance]_vars

\* The values _safe_date_diff is given: datetimes, ISO strings, wrapped
\* timestamps, and values that are no date
ProbeDays == {0, 1, MaxDay}
ProbeHours == {0, 12}
DateInputs ==
    {DateTime(d, h, a) : d \in ProbeDays, h \in ProbeHours, a \in BOOLEAN}
    \cup {IsoStr(f, d, h) : f \in IsoForms \ {"date"}, d \in ProbeDays, h \in ProbeHours}
    \cup {IsoStr("date", d, 0) : d \in ProbeDays}
    \cup {MongoDate((d * HoursPerDay + h) * MsPerHour) : d \in ProbeDays, h \in ProbeHours}
    \cup {GarbledStr, MongoDateStr, OtherDict, DateNumber, DateNone}

InitDateDiff ==
    /\ EngineInit
    /\ fm = NoFind
    /\ ep = NoRun
    /\ \E d1, d2 \in DateInputs :
          probe = [fn |-> "_safe_date_diff", date1 |-> d1, date2 |-> d2,
                   done |-> FALSE, out |-> DateRaised]

\* lines 69-85
ApplySafeDateDiff ==
    /\ probe.fn = "_safe_date_diff"
    /\ ~probe.done
    /\ probe' = [probe EXCEPT
                    !.done = TRUE,
                    !.out = _safe_date_diff(probe.date1, probe.date2)]
    /\ UNCHANGED <<engine_vars, fm, ep>>

NextDateDiff == ApplySafeDateDiff
SpecDateDiff == InitDateDiff /\ [][NextDateDiff]_vars

----------------------------------------------------------------------------
(* Properties *)

Returned == pc = "done"

UniqueIds(txns) ==
    \A a, b \in 1..Len(txns) : a # b => txns[a].transaction_id # txns[b].transaction_id

ReceiptId(k) == ledger_transactions[k].transaction_id
BankId(k) == bank_transactions[k].transaction_id

MatchIndexes == 1..Len(matches)

\* the bank position receipt position j is matched to, 0 when it is in no match
MatchOf(j) == IF \E m \in MatchIndexes : matches[m].receipt = j
              THEN matches[CHOOSE m \in MatchIndexes : matches[m].receipt = j].bank_transaction
              ELSE 0

\* the variance test of section 4.1, written out
WithinVariance(r, b) == r # 0 /\ Abs(Abs(r) - Abs(b)) * 10 <= Max(Abs(r), 10)

\* C1: when the transaction_ids are unique within each input list, each
\* receipt id and each bank id is in at most one entry of matches, and no
\* matched id is in the unmatched list of its side.
C1_NoDoubleAssignment ==
    (Returned /\ UniqueIds(ledger_transactions) /\ UniqueIds(bank_transactions)) =>
        /\ \A m1, m2 \in 1..Len(result.matches) : m1 # m2 =>
              /\ ReceiptId(result.matches[m1].receipt) # ReceiptId(result.matches[m2].receipt)
              /\ BankId(result.matches[m1].bank_transaction)
                     # BankId(result.matches[m2].bank_transaction)
        /\ \A m \in 1..Len(result.matches) :
              /\ \A u \in 1..Len(result.unmatched_ledger) :
                    ReceiptId(result.unmatched_ledger[u]) # ReceiptId(result.matches[m].receipt)
              /\ \A u \in 1..Len(result.unmatched_bank) :
                    BankId(result.unmatched_bank[u]) # BankId(result.matches[m].bank_transaction)

\* two receipts that both qualify for the first bank record, both matched
C1_Witness ==
    /\ Returned /\ UniqueIds(ledger_transactions) /\ UniqueIds(bank_transactions)
    /\ Len(ledger_transactions) = 2 /\ Len(bank_transactions) = 2
    /\ ledger_transactions[1].amount = ledger_transactions[2].amount
    /\ ledger_transactions[1].vendor_name = ledger_transactions[2].vendor_name
    /\ Len(result.matches) = 2

\* C2 as stated: for every run that returns, matches and the unmatched list
\* of a side add up to the length of that side's input.
C2_PartitionEveryRun ==
    Returned =>
        /\ Len(result.matches) + Len(result.unmatched_ledger) = Len(ledger_transactions)
        /\ Len(result.matches) + Len(result.unmatched_bank) = Len(bank_transactions)

\* C2 amended: the receipt equation holds when the receipt ids are unique,
\* the bank equation when the bank ids are unique.
C2_PartitionUniqueIds ==
    Returned =>
        /\ UniqueIds(ledger_transactions) =>
              Len(result.matches) + Len(result.unmatched_ledger) = Len(ledger_transactions)
        /\ UniqueIds(bank_transactions) =>
              Len(result.matches) + Len(result.unmatched_bank) = Len(bank_transactions)

C2_Witness ==
    /\ Returned /\ UniqueIds(ledger_transactions) /\ UniqueIds(bank_transactions)
    /\ Len(ledger_transactions) = 2 /\ Len(bank_transactions) = 2
    /\ Len(result.matches) = 1
    /\ Len(result.unmatched_ledger) = 1 /\ Len(result.unmatched_bank) = 1

\* C3: every match, once emitted, carries a confidence strictly above 0.7.
C3_ThresholdGate ==
    \A m \in MatchIndexes : matches[m].confidence > 7000

\* a returned match of confidence 0.92, next to a pair that scored 0.612
C3_Witness ==
    /\ Returned
    /\ \E m \in 1..Len(result.matches) : result.matches[m].confidence = 9200
    /\ \E k \in 1..Len(ledger_transactions), j \in 1..Len(bank_transactions) :
          /\ _calculate_similarity(ledger_transactions[k], bank_transactions[j]) = 6120
          /\ MatchOf(k) = 0

\* C4 as stated: the confidence of every emitted match lies in [0.0, 1.0].
C4_ConfidenceInUnitInterval ==
    \A m \in MatchIndexes : matches[m].confidence >= 0 /\ matches[m].confidence <= 10000

\* the positions held by a list of positions
Positions(q) == {q[u] : u \in 1..Len(q)}

IsZeroAmount(rec) == rec.amount.t = "num" /\ rec.amount.v = 0

\* C5 as stated: a receipt whose amount is 0 is in no match and is always in
\* unmatched_ledger.
C5_ZeroAmountAlwaysUnmatched ==
    Returned =>
        \A k \in 1..Len(ledger_transactions) :
            IsZeroAmount(ledger_transactions[k]) =>
                /\ MatchOf(k) = 0
                /\ k \in Positions(result.unmatched_ledger)

\* C5 amended: a receipt whose amount is 0 is in no match, and it is in
\* unmatched_ledger when no other receipt of the list has its transaction_id.
C5_ZeroAmountExclusion ==
    Returned =>
        \A k \in 1..Len(ledger_transactions) :
            IsZeroAmount(ledger_transactions[k]) =>
                /\ MatchOf(k) = 0
                /\ (\A j \in 1..Len(ledger_transactions) : j # k => ReceiptId(j) # ReceiptId(k))
                       => k \in Positions(result.unmatched_ledger)

\* a zero-amount receipt left unmatched next to a receipt that was matched
C5_Witness ==
    /\ Returned /\ UniqueIds(ledger_transactions)
    /\ Len(result.matches) = 1 /\ Len(bank_transactions) = 2
    /\ \E k \in 1..Len(ledger_transactions) :
          /\ IsZeroAmount(ledger_transactions[k])
          /\ k \in Positions(result.unmatched_ledger)

\* C6: the receipt and bank amounts of every emitted match pass the variance
\* test |abs(r) - abs(b)| <= max(0.1 * abs(r), 1.0) with r # 0.
C6_AmountGate ==
    \A m \in MatchIndexes :
        WithinVariance(ledger_transactions[matches[m].receipt].amount.v,
                       bank_transactions[matches[m].bank_transaction].amount.v)

\* a pair scoring above 0.7 whose amounts are incompatible (100 vs -80) is
\* left unmatched on both sides while another pair is matched
C6_Witness ==
    /\ Returned /\ Len(result.matches) = 1
    /\ \E k \in Positions(result.unmatched_ledger), j \in Positions(result.unmatched_bank) :
          /\ _calculate_similarity(ledger_transactions[k], bank_transactions[j]) > 7000
          /\ ~WithinVariance(ledger_transactions[k].amount.v, bank_transactions[j].amount.v)

\* The bank records not yet placed in a match when receipt j is processed
PoolBefore(j) ==
    {k \in 1..Len(bank_transactions) :
        \A m \in MatchIndexes : ~(matches[m].bank_transaction = k /\ matches[m].receipt < j)}

Conf(j, k) == _calculate_similarity(ledger_transactions[j], bank_transactions[k])

Qualifies(j, k) ==
    /\ Conf(j, k) > 7000
    /\ WithinVariance(ledger_transactions[j].amount.v, bank_transactions[k].amount.v)

\* k is a qualifying candidate of receipt j of maximum confidence within P
IsBestIn(k, j, P) ==
    /\ k \in P
    /\ Qualifies(j, k)
    /\ \A k2 \in P : Qualifies(j, k2) => Conf(j, k2) <= Conf(j, k)

\* ... and the earliest such candidate in bank input order
IsFirstBestIn(k, j, P) ==
    /\ IsBestIn(k, j, P)
    /\ \A k2 \in P : (k2 < k /\ Qualifies(j, k2)) => Conf(j, k2) < Conf(j, k)

EarlierReceiptWins ==
    \A i, j \in 1..Len(ledger_transactions), k \in 1..Len(bank_transactions) :
        (i < j /\ IsFirstBestIn(k, i, PoolBefore(i)) /\ IsFirstBestIn(k, j, PoolBefore(i))) =>
            /\ MatchOf(i) = k
            /\ MatchOf(j) # k
            /\ IF \E k2 \in PoolBefore(j) : Qualifies(j, k2)
               THEN MatchOf(j) # 0 /\ IsBestIn(MatchOf(j), j, PoolBefore(j))
               ELSE MatchOf(j) = 0 /\ j \in Positions(result.unmatched_ledger)

\* C7 as stated: when two receipts have the same bank record as their best
\* qualifying candidate, the earlier one is matched to it and the later one
\* is matched to its best qualifying candidate among the bank records not yet
\* in a match, or is unmatched when there is none; it is never paired with
\* the record the earlier one took.
C7_EarlierReceiptWins == Returned => EarlierReceiptWins

\* C7 amended: the same, for input lists whose transaction_ids are unique
\* within each list.
C7_EarlierReceiptWinsUniqueIds ==
    (Returned /\ UniqueIds(ledger_transactions) /\ UniqueIds(bank_transactions))
        => EarlierReceiptWins

\* two equal receipts compete for the -100 record; the later one gets -95
C7_Witness ==
    /\ Returned /\ UniqueIds(ledger_transactions) /\ UniqueIds(bank_transactions)
    /\ Len(ledger_transactions) = 2 /\ Len(bank_transactions) = 2
    /\ IsFirstBestIn(1, 1, PoolBefore(1)) /\ IsFirstBestIn(1, 2, PoolBefore(1))
    /\ MatchOf(1) = 1 /\ MatchOf(2) = 2

\* C8: a call that ends on an engine gives the result that the engine's first
\* call gave on the same two input lists, however many calls came between.
C8_Determinism ==
    (pc \in {"done", "raised"}
        /\ first_call.ledger = ledger_transactions
        /\ first_call.bank = bank_transactions)
    => result = first_call.result

\* the inputs of the first call, given again after two or more other calls
C8_Witness ==
    /\ Returned /\ earlier_calls >= 2
    /\ first_call.ledger = ledger_transactions
    /\ first_call.bank = bank_transactions
    /\ Len(result.matches) = 1 /\ Len(result.unmatched_ledger) = 1

\* C9 as stated: reconcile_transactions never raises on lists that hold a
\* record with a missing or malformed field.
C9_NeverAborts == pc # "raised"

HasNoVendor(rec) == rec.vendor_name.t = "missing" \/ rec.vendor_name.s = <<>>

\* C10 as stated, for a receipt with no or empty vendor_name: it scores 0.0
\* against every bank record, is in no match and is kept in unmatched_ledger.
C10_NoVendorNeverMatched ==
    (Returned /\ UniqueIds(ledger_transactions) /\ UniqueIds(bank_transactions)) =>
        \A k \in 1..Len(ledger_transactions) :
            HasNoVendor(ledger_transactions[k]) =>
                /\ \A j \in 1..Len(bank_transactions) : Conf(k, j) = 0
                /\ MatchOf(k) = 0
                /\ k \in Positions(result.unmatched_ledger)

AllPositions(txns) == [k \in 1..Len(txns) |-> k]

\* C11: when either input list is empty the call ends without raising, with
\* no match, and with every record of the other list, in input order, in that
\* side's unmatched list.
C11_EmptyInput ==
    (pc \in {"done", "raised"}
     /\ (ledger_transactions = <<>> \/ bank_transactions = <<>>)) =>
        /\ pc = "done"
        /\ result.matches = <<>>
        /\ result.unmatched_ledger = AllPositions(ledger_transactions)
        /\ result.unmatched_bank = AllPositions(bank_transactions)

\* no bank record, and two receipts of which the first has a string amount
\* (it would raise at line 45 against any bank record)
C11_Witness ==
    /\ Returned
    /\ bank_transactions = <<>>
    /\ Len(ledger_transactions) = 2
    /\ ledger_transactions[1].amount = AmtStr(100)
    /\ Len(result.unmatched_ledger) = 2

\* C12: once the embedding provider has failed in a call of find_matches,
\* the call has raised: it holds no list of candidates, returned or under
\* construction.
C12_EmbeddingFailurePropagates ==
    (fm.pc # "idle" /\ fm.failed) =>
        /\ fm.pc = "raised"
        /\ fm.result = Raised
        /\ fm.matches = <<>>

\* a call on two receipts and two bank records in which the provider failed
C12_Witness ==
    /\ fm.pc = "raised"
    /\ fm.failed
    /\ Len(fm.receipts) = 2 /\ Len(fm.bank_transactions) = 2

\* every position held by the result is a position of its input list
ResultRefersToInputs ==
    /\ \A m \in 1..Len(result.matches) :
          /\ result.matches[m].receipt \in 1..Len(ledger_transactions)
          /\ result.matches[m].bank_transaction \in 1..Len(bank_transactions)
    /\ \A u \in 1..Len(result.unmatched_ledger) :
          result.unmatched_ledger[u] \in 1..Len(ledger_transactions)
    /\ \A u \in 1..Len(result.unmatched_bank) :
          result.unmatched_bank[u] \in 1..Len(bank_transactions)

\* C13: no step of a running call changes either input list (its length,
\* its order, or a field of one of its records), and the result the call
\* returns refers only to records of the input lists.
C13_InputsUnchanged ==
    [][pc = "loop" =>
          /\ ledger_transactions' = ledger_transactions
          /\ bank_transactions' = bank_transactions
          /\ pc' = "done" => ResultRefersToInputs']_vars

\* a returned call with a match and an unmatched record on each side, on
\* two different receipts
C13_Witness ==
    /\ Returned
    /\ Len(ledger_transactions) = 2 /\ Len(bank_transactions) = 2
    /\ ledger_transactions[1] # ledger_transactions[2]
    /\ Len(result.matches) = 1
    /\ result.unmatched_ledger # <<>> /\ result.unmatched_bank # <<>>

\* one receipt of positive amount whose vendor name occurs in the description
\* of the one bank record, which has the same amount up to sign
OnePairSameAmount ==
    /\ Len(ledger_transactions) = 1 /\ Len(bank_transactions) = 1
    /\ ledger_transactions[1].amount.t = "num"
    /\ ledger_transactions[1].amount.v > 0
    /\ bank_transactions[1].amount.t = "num"
    /\ Abs(bank_transactions[1].amount.v) = ledger_transactions[1].amount.v
    /\ Contains(upper(GetText(bank_transactions[1].description)),
                upper(GetText(ledger_transactions[1].vendor_name)))

C15_TokenSetRatioSymmetric ==
    (probe.fn = "token_set_ratio" /\ probe.done) =>
        probe.out = TokenSetRatioOn(probe.matcher, probe.s2, probe.s1)

\* every match pairs its receipt with the earliest candidate of maximum
\* confidence among the qualifying bank records not yet placed in a match
EveryMatchIsFirstBest ==
    \A m \in 1..Len(result.matches) :
        IsFirstBestIn(result.matches[m].bank_transaction, result.matches[m].receipt,
                      PoolBefore(result.matches[m].receipt))

\* C16 as stated: the bank record chosen for a matched receipt is, among the
\* bank records not consumed when the receipt is processed that pass the
\* gate, one of maximum confidence, and the earliest such in input order.
C16_BestCandidateChosen == Returned => EveryMatchIsFirstBest

\* C16 amended: the same, for bank lists whose transaction_ids are unique.
C16_BestCandidateChosenUniqueIds ==
    (Returned /\ UniqueIds(bank_transactions)) => EveryMatchIsFirstBest

\* the one receipt has two candidates tied at the maximum and is matched to
\* the earlier of the two
C16_Witness ==
    /\ Returned /\ UniqueIds(bank_transactions)
    /\ Len(ledger_transactions) = 1 /\ Len(bank_transactions) = 2
    /\ Qualifies(1, 1) /\ Qualifies(1, 2) /\ Conf(1, 1) = Conf(1, 2)
    /\ MatchOf(1) = 1

\* C17: when the call returns on lists of unique transaction_ids, no receipt
\* of unmatched_ledger and bank record of unmatched_bank pass the gate
\* (confidence > 0.7 and amounts compatible) together.
C17_FixedPoint ==
    (Returned /\ UniqueIds(ledger_transactions) /\ UniqueIds(bank_transactions)) =>
        \A j \in Positions(result.unmatched_ledger),
           k \in Positions(result.unmatched_bank) : ~Qualifies(j, k)

\* a receipt and a bank record are both left over next to a match; the
\* receipt passes the gate with the bank record that the match consumed
C17_Witness ==
    /\ Returned /\ UniqueIds(ledger_transactions) /\ UniqueIds(bank_transactions)
    /\ Len(result.matches) = 1
    /\ \E j \in Positions(result.unmatched_ledger) :
          /\ Qualifies(j, result.matches[1].bank_transaction)
          /\ \E k \in Positions(result.unmatched_bank) : Conf(j, k) > 7000

\* C18: _amounts_compatible(r, b) is false when r = 0 and otherwise true
\* exactly when |abs(r) - abs(b)| <= max(0.1 * abs(r), 1.0); changing the
\* sign of r or of b does not change the result.
C18_AmountsCompatible ==
    (probe.fn = "_amounts_compatible" /\ probe.done) =>
        LET r == probe.receipt_amount
            b == probe.bank_amount
        IN /\ r = 0 => probe.out = FALSE
           /\ r # 0 => (probe.out <=> Abs(Abs(r) - Abs(b)) * 10 <= Max(Abs(r), 10))
           /\ probe.out = _amounts_compatible(-r, b)
           /\ probe.out = _amounts_compatible(r, -b)

\* 20 against -22: the difference 2 is exactly 10% of 20
C18_Witness ==
    /\ probe.fn = "_amounts_compatible" /\ probe.done
    /\ probe.receipt_amount = 20 /\ probe.bank_amount = -22
    /\ probe.out = TRUE

\* C19: for a receipt amount r # 0 and a bank amount b, the score is
\* 0.2 * 0.8 + 0.4 * max(0, 1 - |r - |b|| / r) + 0.4 * vendor score
\* (in ten-thousandths; amounts that float() accepts).
C19_FinalScoreFormula ==
    (/\ probe.fn = "_calculate_similarity" /\ probe.done
     /\ FloatOf(probe.receipt.amount).ok /\ FloatOf(probe.bank.amount).ok
     /\ FloatOf(probe.receipt.amount).v # 0) =>
        LET r == FloatOf(probe.receipt.amount).v
            b == FloatOf(probe.bank.amount).v
            amountScore == Max(0, 1000 - (Abs(r - Abs(b)) * 1000) \div r)
            vendorScore == vendor_score(GetText(probe.receipt.vendor_name),
                                        GetText(probe.bank.description))
        IN probe.out = 2 * 800 + 4 * amountScore + 4 * vendorScore

\* 40 against -95 with an unrelated vendor: amount score 0, vendor score
\* 0.13, final score 0.2 * 0.8 + 0.4 * 0.13 = 0.212
C19_Witness ==
    /\ probe.fn = "_calculate_similarity" /\ probe.done
    /\ probe.receipt.amount = AmtNum(40) /\ probe.bank.amount = AmtNum(-95)
    /\ probe.receipt.vendor_name = Txt(SHELL)
    /\ probe.bank.description = Txt(WALMART_12)
    /\ probe.out = 2120

\* the upper-cased vendor name, replaced by its correction when it is a key
\* of the table
Descriptor(vendor_name) ==
    LET v == upper(vendor_name)
    IN IF v = USB THEN AMAZON ELSE IF v = FUEL THEN SHELL
       ELSE IF v = TAX THEN WALMART ELSE v

\* C20: the vendor score is 0.9 when the descriptor, or one of its
\* blank-separated tokens, occurs in the upper-cased bank description, and
\* is the token-set ratio of the two divided by 100 otherwise.
C20_VendorScore ==
    (probe.fn = "vendor_score" /\ probe.done) =>
        LET v == Descriptor(probe.vendor_name)
            d == upper(probe.description)
        IN IF Contains(d, v) \/ \E w \in SeqToSet(split(v)) : Contains(d, w)
           THEN probe.out = 900
           ELSE probe.out = 10 * TokenSetRatioOn(probe.matcher, v, d)

\* 'usb' is corrected to AMAZON, which occurs in 'AMAZON MKTP'
C20_Witness ==
    /\ probe.fn = "vendor_score" /\ probe.done
    /\ probe.vendor_name = <<"u","s","b">>
    /\ probe.description = <<"A","M","A","Z","O","N"," ","M","K","T","P">>
    /\ probe.out = 900

\* C21 as stated: on two timestamps that can be subtracted,
\* _is_date_within_tolerance is true exactly when their calendar days are at
\* most date_tolerance_days apart, whatever their times of day are.
C21_CalendarDayTolerance ==
    (probe.fn = "_is_date_within_tolerance" /\ probe.done
        /\ CanSubtract(probe.date1, probe.date2)) =>
        /\ probe.out.kind = "returned"
        /\ probe.out.value <=>
              Abs(probe.date1.day - probe.date2.day) <= date_tolerance_days

\* the value _safe_date_diff works on after lines 70-78, or none
FailsToParse(date) == ~ParseDate(date).ok
NoDate(date) == date \in {GarbledStr, MongoDateStr, OtherDict, DateNumber, DateNone}

\* C22: _safe_date_diff never raises; it returns a non-negative integer, and
\* it returns 999 whenever one of its arguments is no date, fails to parse, or
\* the two parsed values cannot be subtracted (an aware and a naive datetime).
C22_SafeDateDiffNeverRaises ==
    (probe.fn = "_safe_date_diff" /\ probe.done) =>
        /\ probe.out.kind = "returned"
        /\ probe.out.value \in Nat
        /\ (NoDate(probe.date1) \/ NoDate(probe.date2))
              => probe.out.value = DateParsingFailed
        /\ (FailsToParse(probe.date1) \/ FailsToParse(probe.date2))
              => probe.out.value = DateParsingFailed
        /\ (~FailsToParse(probe.date1) /\ ~FailsToParse(probe.date2)
              /\ ~CanSubtract(ParseDate(probe.date1).v, ParseDate(probe.date2).v))
              => probe.out.value = DateParsingFailed

\* an aware datetime against a naive ISO string: the subtraction fails and
\* 999 is returned
C22_Witness ==
    /\ probe.fn = "_safe_date_diff" /\ probe.done
    /\ probe.date1 = DateTime(0, 0, TRUE)
    /\ probe.date2 = IsoStr("naive", 1, 12)
    /\ probe.out = DateReturned(DateParsingFailed)

\* C23: every candidate find_matches returns pairs its receipt with the
\* first bank record of maximum cosine similarity in the receipt's row, that
\* maximum is strictly greater than 0.7, and the candidate carries it as its
\* confidence with match_type "semantic".
C23_RowMaximumAboveThreshold ==
    (fm.pc = "returned" /\ fm.similarity_matrix # <<>>) =>
        \A m \in 1..Len(fm.result.matches) :
            LET c == fm.result.matches[m]
                row == fm.similarity_matrix[c.receipt]
            IN /\ \A k \in 1..Len(row) : row[k] <= row[c.bank_transaction]
               /\ \A k \in 1..(c.bank_transaction - 1) : row[k] < row[c.bank_transaction]
               /\ c.confidence = row[c.bank_transaction]
               /\ c.confidence > semantic_threshold
               /\ c.match_type = "semantic"

\* the first receipt's row has its maximum twice and is paired with the first
\* of the two; the second receipt's maximum is exactly 0.7 and it gets no
\* candidate
C23_Witness ==
    /\ fm.pc = "returned"
    /\ fm.similarity_matrix = <<(<<9000, 9000>>), (<<7000, 7000>>)>>
    /\ Len(fm.result.matches) = 1
    /\ fm.result.matches[1].receipt = 1
    /\ fm.result.matches[1].bank_transaction = 1

\* C24: a call of find_matches leaves its two input lists and the engine's
\* state as they are, and the list it returns holds the candidates in
\* receipt input order, at most one for each receipt.
C24_PureQuery ==
    [][/\ fm.pc # "idle" =>
            /\ fm'.receipts = fm.receipts
            /\ fm'.bank_transactions = fm.bank_transactions
            /\ UNCHANGED engine_vars
       /\ fm'.pc = "returned" =>
            \A m, n \in 1..Len(fm'.result.matches) :
                m < n => fm'.result.matches[m].receipt < fm'.result.matches[n].receipt]_vars

\* two receipts were both given the first bank record as their candidate
C24_Witness ==
    /\ fm.pc = "returned"
    /\ Len(fm.result.matches) = 2
    /\ fm.result.matches[1].receipt = 1 /\ fm.result.matches[2].receipt = 2
    /\ fm.result.matches[1].bank_transaction = 1
    /\ fm.result.matches[2].bank_transaction = 1
    /\ Len(fm.bank_transactions) = 2

\* the list txns without its transaction_date values
Undated(txns) == Redated(txns, [k \in 1..Len(txns) |-> DateNone])

\* C25: a call that ends on lists that differ from the lists of the first
\* call in transaction_date values only gives the result of the first call:
\* the same pairs with the same confidences in the same order, and the same
\* unmatched lists.
C25_DatesDoNotMatter ==
    (pc \in {"done", "raised"}
        /\ Undated(first_call.ledger) = Undated(ledger_transactions)
        /\ Undated(first_call.bank) = Undated(bank_transactions))
    => result = first_call.result

\* the first call had receipt and bank record on the same date, this one has
\* them MaxDay days apart, and a match was made
C25_Witness ==
    /\ Returned /\ earlier_calls >= 1
    /\ Len(ledger_transactions) = 2 /\ Len(bank_transactions) = 1
    /\ first_call.ledger[1].transaction_date = first_call.bank[1].transaction_date
    /\ ledger_transactions[1].transaction_date = DateTime(0, 0, FALSE)
    /\ bank_transactions[1].transaction_date = IsoStr("date", MaxDay, 0)
    /\ Len(result.matches) = 1

\* bank position k is in a match of the list ms
BankMatched(ms, k) == \E m \in 1..Len(ms) : ms[m].bank_transaction = k
ReceiptMatched(ms, j) == \E m \in 1..Len(ms) : ms[m].receipt = j

\* in a returned outcome: a receipt that follows a matched receipt of the same
\* id is in no match and not in unmatched_ledger; a bank record that shares
\* the id of a matched bank record is in no match and not in unmatched_bank
DuplicatesDropped ==
    /\ \A j, d \in 1..Len(ledger_transactions) :
          (j < d /\ ReceiptId(j) = ReceiptId(d) /\ ReceiptMatched(result.matches, j))
          => /\ ~ReceiptMatched(result.matches, d)
             /\ d \notin Positions(result.unmatched_ledger)
    /\ \A k, d \in 1..Len(bank_transactions) :
          (k # d /\ BankId(k) = BankId(d) /\ BankMatched(result.matches, k))
          => /\ ~BankMatched(result.matches, d)
             /\ d \notin Positions(result.unmatched_bank)

\* C26: a receipt whose transaction_id is already used is passed over without
\* being scored or matched, and no step matches a bank record whose id is
\* already used; in the outcome the later receipt of a matched receipt's id,
\* and every other bank record of a matched bank record's id, are in neither
\* the matches nor the unmatched list of their side.
C26_DuplicateIdsDropped ==
    [][/\ (pc = "loop" /\ next_receipt <= Len(ledger_transactions)
            /\ ReceiptId(next_receipt) \in used_receipts)
          => (matches' = matches /\ next_receipt' = next_receipt + 1 /\ pc' = "loop")
       /\ (pc = "loop" /\ Len(matches') > Len(matches))
          => LET new == matches'[Len(matches')]
             IN /\ BankId(new.bank_transaction) \notin used_bank_transactions
                /\ ReceiptId(new.receipt) \notin used_receipts
       /\ (pc = "loop" /\ pc' = "done") => DuplicatesDropped']_vars

\* two receipts of one id and two bank records of one id, all of 100: the
\* first pair is matched, the other two records are in no list of the outcome
C26_Witness ==
    /\ Returned
    /\ Len(ledger_transactions) = 2 /\ Len(bank_transactions) = 2
    /\ ReceiptId(1) = ReceiptId(2) /\ BankId(1) = BankId(2)
    /\ ledger_transactions[2].amount.v = 100
    /\ bank_transactions[2].amount.v = -100
    /\ Len(result.matches) = 1 /\ MatchOf(1) = 1
    /\ result.unmatched_ledger = <<>> /\ result.unmatched_bank = <<>>

CurrentEmail == ep.emails[ep.i]

\* C27: an email for which is_email_processed returned true is not passed to
\* process_single_email but skipped; an email that process_single_email
\* returns from without raising goes to add_processed_email next, and only
\* then is the following email considered.
C27_SkipProcessedRecordReturned ==
    [][/\ (ep.pc = "check" /\ ep'.is_processed)
            => /\ ep'.pc # "process"
               /\ ep'.log = Append(ep.log, [id |-> CurrentEmail.id, outcome |-> "skipped"])
       /\ (ep.pc = "check" /\ ep'.pc = "process") => ~ep'.is_processed
       /\ (ep.pc = "process" /\ ~process_single_email(CurrentEmail).raised)
            => (ep'.pc = "record" /\ ep'.i = ep.i /\ ep'.log = ep.log)
       /\ ep.pc = "record"
            => ep'.log = Append(ep.log, [id |-> CurrentEmail.id, outcome |-> "added"])]_vars

\* in a second run the first email was skipped as processed and the second
\* went through process_single_email and add_processed_email
C27_Witness ==
    /\ ep.pc = "returned" /\ ep.runs = 2
    /\ Len(ep.log) = 2
    /\ ep.log[1].outcome = "skipped" /\ ep.log[2].outcome = "added"
    /\ ep.log[1].id # ep.log[2].id

\* C28: a run that has returned has attempted disconnect exactly once and
\* returned its list of processed receipts, on every path and also when
\* disconnect raised; before it returns it has not attempted it.
C28_DisconnectOnce ==
    /\ ep.pc = "returned"
          => /\ ep.disconnects = 1
             /\ ep.returned = [kind |-> "list", receipts |-> ep.processed_receipts]
             /\ ep.path \in {"refused", "error", "fetch_error", "no_emails", "completed"}
    /\ ep.pc \in {"connect", "fetch", "check", "process", "record", "disconnect"}
          => ep.disconnects = 0

\* a run with an email that raised and an email that gave a receipt, whose
\* disconnect raised: the receipt is returned
C28_Witness ==
    /\ ep.pc = "returned" /\ ep.disconnect_failed /\ ep.disconnects = 1
    /\ ep.path = "completed"
    /\ \E j \in 1..Len(ep.log) : ep.log[j].outcome = "raised"
    /\ Len(ep.returned.receipts) = 1

\* the receipts a run collects from the emails its log says went through
RECURSIVE Collected(_, _, _)
Collected(emails, log, j) ==
    IF j > Len(log) THEN <<>>
    ELSE IF log[j].outcome = "added" /\ process_single_email(emails[j]).receipt_data.filled
         THEN <<process_single_email(emails[j]).receipt_data>> \o Collected(emails, log, j + 1)
         ELSE Collected(emails, log, j + 1)

\* C29: a run that fetched emails has considered every one of them when it
\* returns, whichever of them raised, and it returns the receipts of all the
\* emails that went through.
C29_BatchContinues ==
    (ep.pc = "returned" /\ ep.emails # <<>>) =>
        /\ ep.path = "completed"
        /\ Len(ep.log) = Len(ep.emails)
        /\ \A j \in 1..Len(ep.log) : ep.log[j].id = ep.emails[j].id
        /\ ep.returned.receipts = Collected(ep.emails, ep.log, 1)

\* the second of three emails raised: the first one's receipt and the third
\* one's are both returned
C29_Witness ==
    /\ ep.pc = "returned" /\ Len(ep.emails) = 3
    /\ ep.log[1].outcome = "added" /\ ep.log[2].outcome = "raised"
    /\ ep.log[3].outcome = "added"
    /\ Len(ep.returned.receipts) = 2

\* every attachment of the email fails
AllAttachmentsFail(email) ==
    /\ email.attachments.readable
    /\ \A k \in 1..Len(email.attachments.list) : email.attachments.list[k] # "ok"

\* an email all of whose attachments fail comes back from
\* process_single_email with an empty result, adds nothing to the list of
\* the run and is given to add_processed_email
EmptyResultRecorded ==
    /\ (ep.pc = "process" /\ AllAttachmentsFail(CurrentEmail))
          => (ep'.pc = "record" /\ ~ep'.result.filled)
    /\ (ep.pc = "record" /\ ~ep.result.filled)
          => /\ ep'.processed_receipts = ep.processed_receipts
             /\ CurrentEmail.id \in ep'.added_empty
             /\ ep'.save \in SaveOutcomes

====
